---- MODULE Spec2Model ----
(***************************************************************************)
(* Link resolution and mutation engine of the URL shortener                *)
(* (app/services/link_service.py, app/services/admin_service.py,           *)
(* app/cleanup.py) over the link table of app/models/models.py and the     *)
(* redis cache of app/db/redis.py.                                         *)
(*                                                                         *)
(* Time is counted in days.  Values stored in the DateTime columns are     *)
(* naive, so the store keeps plain integers; a datetime supplied by a      *)
(* caller carries its tzinfo flag, because Python refuses to order a naive *)
(* against an aware datetime (TypeError).  The server's local zone is UTC. *)
(* A string is the sequence of its characters; the cache key               *)
(* "link:" + code is represented by code.                                  *)
(***************************************************************************)
EXTENDS Integers, Sequences, FiniteSets, TLC

VARIABLES links, users, cache, now, ret, sessions

vars == <<links, users, cache, now, ret, sessions>>

----------------------------------------------------------------------------
(* Bounds of the model *)

MaxTime == 2
MaxClicks == 2
InactiveDays == 1

(* Program constants *)

SHORT_CODE_LENGTH == 6
CUSTOM_ALIAS_MIN_LENGTH == 4
REDIS_CACHE_TTL == 3600

----------------------------------------------------------------------------
(* Values *)

NoneStr == <<>>
NoneT == -1
NoneUser == 0
NoneUrl == ""
NoEntry == "nil"
NoExp == [t |-> NoneT, aware |-> FALSE]

gen1 == <<"a", "b", "c", "1", "2", "3">>
gen2 == <<"d", "e", "f", "4", "5", "6">>
short1 == <<"a", "b">>
three1 == <<"a", "b", "c">>
four1 == <<"a", "b", "c", "d">>

Urls == {"https://a", "https://b"}
GenCodes == {gen1, gen2}
Aliases == {short1, three1, four1, gen1, gen2}
Codes == GenCodes \cup Aliases
CacheValues == Urls \cup {NoEntry}
UserIds == {1, 2}
AdminIds == {2}
GhostUser == 3
ExpOffsets == {0, 2}

(* datetimes a caller can supply, relative to the current time *)
ExpInputs == {NoExp} \cup {[t |-> now + d, aware |-> a] : d \in ExpOffsets, a \in BOOLEAN}

----------------------------------------------------------------------------
(* The link table *)

Link_used(code, url, alias, exp, uid, created) ==
    [short_code |-> code, original_url |-> url, custom_alias |-> alias,
     created_at |-> created, last_used_at |-> created, expires_at |-> exp,
     clicks |-> 1, is_active |-> TRUE, user_id |-> uid]

Link(code, url, alias, exp, uid, created) ==
    [short_code |-> code, original_url |-> url, custom_alias |-> alias,
     created_at |-> created, last_used_at |-> NoneT, expires_at |-> exp,
     clicks |-> 0, is_active |-> TRUE, user_id |-> uid]

Ids(ls) == DOMAIN ls

ActiveByCode_any(ls, code) == {i \in Ids(ls) : ls[i].short_code = code}

(* filter(Link.short_code == short_code, Link.is_active == True) *)
ActiveByCode(ls, code) == {i \in Ids(ls) : ls[i].short_code = code /\ ls[i].is_active}

ActiveByAlias_any(ls, alias) == {i \in Ids(ls) : ls[i].custom_alias = alias}

ActiveByAlias(ls, alias) == {i \in Ids(ls) : ls[i].custom_alias = alias /\ ls[i].is_active}

ActiveByUserAndUrl(ls, uid, url) ==
    {i \in Ids(ls) : ls[i].original_url = url /\ ls[i].user_id = uid /\ ls[i].is_active}

(* the search restricted to rows that have an owner *)
ActiveByUrl_registered(ls, url) ==
    {i \in Ids(ls) : ls[i].original_url = url /\ ls[i].is_active /\ ls[i].user_id # NoneUser}

ActiveByUrl(ls, url) == {i \in Ids(ls) : ls[i].original_url = url /\ ls[i].is_active}

(* Query.first() over a set of matching rows *)
First(S) == CHOOSE i \in S : \A j \in S : i <= j

UniqueIndexOk_absent(ls) == TRUE

(* unique index of the link table over the active rows, checked at commit *)
UniqueIndexOk(ls) ==
    \A i \in Ids(ls) : \A j \in Ids(ls) :
        (i # j /\ ls[i].is_active /\ ls[j].is_active) => ls[i].short_code # ls[j].short_code

(* generate_short_code: any string of the requested length *)
generate_short_code(length) == {c \in GenCodes : Len(c) = length}

Expired(l, t) == l.expires_at # NoneT /\ l.expires_at < t

AliasTooShort_inclusive(alias) == Len(alias) <= CUSTOM_ALIAS_MIN_LENGTH

(* len(link_data.custom_alias) < CUSTOM_ALIAS_MIN_LENGTH *)
AliasTooShort(alias) == Len(alias) < CUSTOM_ALIAS_MIN_LENGTH

NotInFuture_strict(exp, t) == exp.t < t

(* link_data.expires_at <= now *)
NotInFuture(exp, t) == exp.t <= t

NotOwner_never(db_link, user) == FALSE

NotOwner_strict(db_link, user) == db_link.user_id # user

(* db_link.user_id and db_link.user_id != user.id *)
NotOwner(db_link, user) == db_link.user_id # NoneUser /\ db_link.user_id # user

Touch_clicksOnly(ls, i, t) == [ls EXCEPT ![i].clicks = @ + 1]

(* db_link.clicks += 1; db_link.last_used_at = now *)
Touch(ls, i, t) == [ls EXCEPT ![i].clicks = @ + 1, ![i].last_used_at = t]

SetAlias_aliasOnly(db_link, alias) == [db_link EXCEPT !.custom_alias = alias]

(* db_link.custom_alias = alias; db_link.short_code = alias *)
SetAlias(db_link, alias) == [db_link EXCEPT !.custom_alias = alias, !.short_code = alias]

----------------------------------------------------------------------------
(* A state of store, cache and clock; the cache calls an operation makes;  *)
(* what an operation leaves behind and hands back                          *)

State(ls, us, ch, t) == [links |-> ls, users |-> us, cache |-> ch, now |-> t]

Cur == State(links, users, cache, now)

CGet(k) == [f |-> "get", k |-> k, v |-> NoEntry, ex |-> 0]
CSet(k, v, ex) == [f |-> "set", k |-> k, v |-> v, ex |-> ex]
CDel(k) == [f |-> "delete", k |-> k, v |-> NoEntry, ex |-> 0]

(* bytes returned by redis.get are truthy unless absent or empty *)
Truthy(v) == v # NoEntry /\ v # ""

Out(s, ls, ch, res, ids, calls, commits) ==
    [links |-> ls, users |-> s.users, cache |-> ch, now |-> s.now,
     res |-> res, ids |-> ids, calls |-> calls, commits |-> commits]

(* the state an outcome leaves *)
After(o) == State(o.links, o.users, o.cache, o.now)

Ret(op, o) == [op |-> op, res |-> o.res, ids |-> o.ids, calls |-> o.calls,
               commits |-> o.commits]

NoRet(op) == [op |-> op, res |-> "ok", ids |-> {}, calls |-> <<>>, commits |-> 0]

----------------------------------------------------------------------------
(* create_link: the set of outcomes, one per code the generator may draw  *)

LinkCreate(url, alias, exp) ==
    [original_url |-> url, custom_alias |-> alias, expires_at |-> exp]

ExistingUrl_skipped(s, link_data, user) == {}

(* the rows the per-user query for the same URL matches *)
ExistingUrl(s, link_data, user) ==
    IF user # NoneUser
    THEN ActiveByUserAndUrl(s.links, user, link_data.original_url)
    ELSE {}

CreateAfterCode(s, link_data, user, short_code) ==
    LET existing_url == ExistingUrl(s, link_data, user)
        expires_at == IF link_data.expires_at # NoExp THEN link_data.expires_at.t
                      ELSE s.now + InactiveDays
        added == Append(s.links, Link(short_code, link_data.original_url,
                                      link_data.custom_alias, expires_at, user, s.now))
    IN  IF existing_url # {}
        THEN {Out(s, s.links, s.cache, "existing", {i}, <<>>, 0) : i \in existing_url}
        ELSE IF link_data.expires_at # NoExp /\ ~link_data.expires_at.aware
        THEN {Out(s, s.links, s.cache, "TypeError", {}, <<>>, 0)}
        ELSE IF link_data.expires_at # NoExp /\ NotInFuture(link_data.expires_at, s.now)
        THEN {Out(s, s.links, s.cache, "ExpirationInPast", {}, <<>>, 0)}
        ELSE IF ~UniqueIndexOk(added)
        THEN {Out(s, s.links, s.cache, "IntegrityError", {}, <<>>, 0)}
        ELSE {Out(s, added, s.cache, "created", {Len(added)}, <<>>, 1)}

create_link(s, link_data, user) ==
    IF link_data.custom_alias # NoneStr
    THEN IF AliasTooShort(link_data.custom_alias)
         THEN {Out(s, s.links, s.cache, "AliasTooShort", {}, <<>>, 0)}
         ELSE IF ActiveByAlias(s.links, link_data.custom_alias) # {}
         THEN {Out(s, s.links, s.cache, "AliasTaken", {}, <<>>, 0)}
         ELSE CreateAfterCode(s, link_data, user, link_data.custom_alias)
    ELSE UNION {CreateAfterCode(s, link_data, user, sc) :
                    sc \in {c \in generate_short_code(SHORT_CODE_LENGTH) :
                                ActiveByCode(s.links, c) = {}}}

----------------------------------------------------------------------------
(* get_link_by_short_code *)

GetHit_trusting(s, short_code, is_redirect) ==
    LET S == ActiveByCode(s.links, short_code)
    IN  IF S # {}
        THEN Out(s, s.links, s.cache, "link", {First(S)}, <<CGet(short_code)>>, 0)
        ELSE Out(s, s.links, [s.cache EXCEPT ![short_code] = NoEntry], "None", {},
                 <<CGet(short_code), CDel(short_code)>>, 0)

GetHit_keeping(s, short_code, is_redirect) ==
    LET S == ActiveByCode(s.links, short_code)
        i == First(S)
        get == CGet(short_code)
    IN  IF S # {}
        THEN IF Expired(s.links[i], s.now)
             THEN Out(s, [s.links EXCEPT ![i].is_active = FALSE], s.cache, "None", {},
                      <<get>>, 1)
             ELSE IF is_redirect
             THEN Out(s, Touch(s.links, i, s.now), s.cache, "link", {i}, <<get>>, 1)
             ELSE Out(s, s.links, s.cache, "link", {i}, <<get>>, 0)
        ELSE Out(s, s.links, s.cache, "None", {}, <<get>>, 0)

(* lines 109-133: the cache holds a value for the key *)
GetHit(s, short_code, is_redirect) ==
    LET S == ActiveByCode(s.links, short_code)
        i == First(S)
        dropped == [s.cache EXCEPT ![short_code] = NoEntry]
        get == CGet(short_code)
        del == CDel(short_code)
    IN  IF S # {}
        THEN IF Expired(s.links[i], s.now)
             THEN Out(s, [s.links EXCEPT ![i].is_active = FALSE], dropped, "None", {},
                      <<get, del>>, 1)
             ELSE IF is_redirect
             THEN Out(s, Touch(s.links, i, s.now), s.cache, "link", {i}, <<get>>, 1)
             ELSE Out(s, s.links, s.cache, "link", {i}, <<get>>, 0)
        ELSE Out(s, s.links, dropped, "None", {}, <<get, del>>, 0)

GetMiss_forgetful(s, short_code, is_redirect) ==
    LET S == ActiveByCode(s.links, short_code)
        i == First(S)
    IN  IF S # {} /\ ~Expired(s.links[i], s.now)
        THEN Out(s, IF is_redirect THEN Touch(s.links, i, s.now) ELSE s.links,
                 [s.cache EXCEPT ![short_code] = s.links[i].original_url], "link", {i},
                 <<CGet(short_code), CSet(short_code, s.links[i].original_url,
                                          REDIS_CACHE_TTL)>>,
                 IF is_redirect THEN 1 ELSE 0)
        ELSE Out(s, s.links, s.cache, "None", {}, <<CGet(short_code)>>, 0)

GetMiss_redirectOnly(s, short_code, is_redirect) ==
    LET S == ActiveByCode(s.links, short_code)
        i == First(S)
        get == CGet(short_code)
    IN  IF S # {}
        THEN IF Expired(s.links[i], s.now)
             THEN Out(s, [s.links EXCEPT ![i].is_active = FALSE], s.cache, "None", {},
                      <<get>>, 1)
             ELSE IF is_redirect
             THEN Out(s, Touch(s.links, i, s.now),
                      [s.cache EXCEPT ![short_code] = s.links[i].original_url], "link", {i},
                      <<get, CSet(short_code, s.links[i].original_url, REDIS_CACHE_TTL)>>, 1)
             ELSE Out(s, s.links, s.cache, "link", {i}, <<get>>, 0)
        ELSE Out(s, s.links, s.cache, "None", {}, <<get>>, 0)

(* lines 135-156: the cache holds nothing for the key *)
GetMiss(s, short_code, is_redirect) ==
    LET S == ActiveByCode(s.links, short_code)
        i == First(S)
        filled == [s.cache EXCEPT ![short_code] = s.links[i].original_url]
        get == CGet(short_code)
        set == CSet(short_code, s.links[i].original_url, REDIS_CACHE_TTL)
    IN  IF S # {}
        THEN IF Expired(s.links[i], s.now)
             THEN Out(s, [s.links EXCEPT ![i].is_active = FALSE], s.cache, "None", {},
                      <<get>>, 1)
             ELSE IF is_redirect
             THEN Out(s, Touch(s.links, i, s.now), filled, "link", {i}, <<get, set>>, 1)
             ELSE Out(s, s.links, filled, "link", {i}, <<get, set>>, 0)
        ELSE Out(s, s.links, s.cache, "None", {}, <<get>>, 0)

get_link_by_short_code(s, short_code, is_redirect) ==
    LET cached_original_url == s.cache[short_code]
    IN  IF Truthy(cached_original_url)
        THEN GetHit(s, short_code, is_redirect)
        ELSE GetMiss(s, short_code, is_redirect)

(* get_link_stats *)
get_link_stats(s, short_code) ==
    LET S == ActiveByCode(s.links, short_code)
    IN  IF S # {} THEN Out(s, s.links, s.cache, "link", {First(S)}, <<>>, 0)
        ELSE Out(s, s.links, s.cache, "None", {}, <<>>, 0)

(* search_by_original_url *)
search_by_original_url(s, original_url) ==
    Out(s, s.links, s.cache, "list", ActiveByUrl(s.links, original_url), <<>>, 0)

(* api/links.py get_link_info: get_link_by_short_code(db, short_code), the *)
(* is_redirect parameter left at its default True                          *)
get_link_info(s, short_code) == get_link_by_short_code(s, short_code, TRUE)

----------------------------------------------------------------------------
(* update_link *)

update_link_hiding(s, short_code, link_data, user) ==
    LET S == ActiveByCode(s.links, short_code)
        mine == {i \in S : ~NotOwner(s.links[i], user)}
        i == First(mine)
        db_link == s.links[i]
        newAlias == link_data.custom_alias # NoneStr
                    /\ link_data.custom_alias # db_link.custom_alias
        l1 == IF newAlias THEN SetAlias(db_link, link_data.custom_alias) ELSE db_link
        l2 == IF link_data.original_url # NoneUrl
              THEN [l1 EXCEPT !.original_url = link_data.original_url]
              ELSE l1
        l3 == IF link_data.expires_at # NoExp
              THEN [l2 EXCEPT !.expires_at = link_data.expires_at.t]
              ELSE l2
        ok == /\ ~(newAlias /\ AliasTooShort(link_data.custom_alias))
              /\ ~(newAlias /\ ActiveByAlias(s.links, link_data.custom_alias) # {})
              /\ link_data.expires_at = NoExp
    IN  IF mine = {} \/ ~ok
        THEN Out(s, s.links, s.cache, "None", {}, <<>>, 0)
        ELSE Out(s, [s.links EXCEPT ![i] = l3], [s.cache EXCEPT ![short_code] = NoEntry],
                 "link", {i}, <<CDel(short_code)>>, 1)

update_link_eager(s, short_code, link_data, user) ==
    LET S == ActiveByCode(s.links, short_code)
        i == First(S)
        db_link == s.links[i]
        newAlias == link_data.custom_alias # NoneStr
                    /\ link_data.custom_alias # db_link.custom_alias
        l1 == IF newAlias THEN SetAlias(db_link, link_data.custom_alias) ELSE db_link
        l2 == IF link_data.original_url # NoneUrl
              THEN [l1 EXCEPT !.original_url = link_data.original_url]
              ELSE l1
        l3 == IF link_data.expires_at # NoExp
              THEN [l2 EXCEPT !.expires_at = link_data.expires_at.t]
              ELSE l2
        d1 == [s.cache EXCEPT ![short_code] = NoEntry]
        d2 == IF newAlias THEN [d1 EXCEPT ![link_data.custom_alias] = NoEntry] ELSE d1
        calls == IF newAlias THEN <<CDel(short_code), CDel(link_data.custom_alias)>>
                 ELSE <<CDel(short_code)>>
    IN  IF S = {}
        THEN Out(s, s.links, s.cache, "None", {}, <<>>, 0)
        ELSE IF NotOwner(db_link, user)
        THEN Out(s, s.links, s.cache, "Forbidden", {}, <<>>, 0)
        ELSE IF newAlias /\ AliasTooShort(link_data.custom_alias)
        THEN Out(s, s.links, s.cache, "AliasTooShort", {}, <<>>, 0)
        ELSE IF newAlias /\ ActiveByAlias(s.links, link_data.custom_alias) # {}
        THEN Out(s, s.links, s.cache, "AliasTaken", {}, <<>>, 0)
        ELSE IF link_data.expires_at # NoExp /\ link_data.expires_at.aware
        THEN Out(s, s.links, s.cache, "TypeError", {}, <<>>, 0)
        ELSE IF link_data.expires_at # NoExp /\ NotInFuture(link_data.expires_at, s.now)
        THEN Out(s, [s.links EXCEPT ![i] = l2], s.cache, "ExpirationInPast", {}, <<>>, 1)
        ELSE IF ~UniqueIndexOk([s.links EXCEPT ![i] = l3])
        THEN Out(s, s.links, s.cache, "IntegrityError", {}, <<>>, 0)
        ELSE Out(s, [s.links EXCEPT ![i] = l3], d2, "link", {i}, calls, 1)

update_link_touching(s, short_code, link_data, user) ==
    LET S == ActiveByCode(s.links, short_code)
        i == First(S)
        db_link == s.links[i]
        newAlias == link_data.custom_alias # NoneStr
                    /\ link_data.custom_alias # db_link.custom_alias
        l1 == IF newAlias THEN SetAlias(db_link, link_data.custom_alias) ELSE db_link
        l2 == IF link_data.original_url # NoneUrl
              THEN [l1 EXCEPT !.original_url = link_data.original_url]
              ELSE l1
        l3 == IF link_data.expires_at # NoExp
              THEN [l2 EXCEPT !.expires_at = link_data.expires_at.t]
              ELSE l2
        updated == [s.links EXCEPT ![i] = [l3 EXCEPT !.last_used_at = s.now]]
        d1 == [s.cache EXCEPT ![short_code] = NoEntry]
        d2 == IF newAlias THEN [d1 EXCEPT ![link_data.custom_alias] = NoEntry] ELSE d1
        calls == IF newAlias THEN <<CDel(short_code), CDel(link_data.custom_alias)>>
                 ELSE <<CDel(short_code)>>
    IN  IF S = {}
        THEN Out(s, s.links, s.cache, "None", {}, <<>>, 0)
        ELSE IF NotOwner(db_link, user)
        THEN Out(s, s.links, s.cache, "Forbidden", {}, <<>>, 0)
        ELSE IF newAlias /\ AliasTooShort(link_data.custom_alias)
        THEN Out(s, s.links, s.cache, "AliasTooShort", {}, <<>>, 0)
        ELSE IF newAlias /\ ActiveByAlias(s.links, link_data.custom_alias) # {}
        THEN Out(s, s.links, s.cache, "AliasTaken", {}, <<>>, 0)
        ELSE IF link_data.expires_at # NoExp /\ link_data.expires_at.aware
        THEN Out(s, s.links, s.cache, "TypeError", {}, <<>>, 0)
        ELSE IF link_data.expires_at # NoExp /\ NotInFuture(link_data.expires_at, s.now)
        THEN Out(s, s.links, s.cache, "ExpirationInPast", {}, <<>>, 0)
        ELSE IF ~UniqueIndexOk(updated)
        THEN Out(s, s.links, s.cache, "IntegrityError", {}, <<>>, 0)
        ELSE Out(s, updated, d2, "link", {i}, calls, 1)

LinkUpdate(url, alias, exp) ==
    [original_url |-> url, custom_alias |-> alias, expires_at |-> exp]

update_link(s, short_code, link_data, user) ==
    LET S == ActiveByCode(s.links, short_code)
        i == First(S)
        db_link == s.links[i]
        newAlias == link_data.custom_alias # NoneStr
                    /\ link_data.custom_alias # db_link.custom_alias
        l1 == IF newAlias THEN SetAlias(db_link, link_data.custom_alias) ELSE db_link
        l2 == IF link_data.original_url # NoneUrl
              THEN [l1 EXCEPT !.original_url = link_data.original_url]
              ELSE l1
        l3 == IF link_data.expires_at # NoExp
              THEN [l2 EXCEPT !.expires_at = link_data.expires_at.t]
              ELSE l2
        updated == [s.links EXCEPT ![i] = l3]
        d1 == [s.cache EXCEPT ![short_code] = NoEntry]
        d2 == IF newAlias THEN [d1 EXCEPT ![link_data.custom_alias] = NoEntry] ELSE d1
        calls == IF newAlias THEN <<CDel(short_code), CDel(link_data.custom_alias)>>
                 ELSE <<CDel(short_code)>>
    IN  IF S = {}
        THEN Out(s, s.links, s.cache, "None", {}, <<>>, 0)
        ELSE IF NotOwner(db_link, user)
        THEN Out(s, s.links, s.cache, "Forbidden", {}, <<>>, 0)
        ELSE IF newAlias /\ AliasTooShort(link_data.custom_alias)
        THEN Out(s, s.links, s.cache, "AliasTooShort", {}, <<>>, 0)
        ELSE IF newAlias /\ ActiveByAlias(s.links, link_data.custom_alias) # {}
        THEN Out(s, s.links, s.cache, "AliasTaken", {}, <<>>, 0)
        ELSE IF link_data.expires_at # NoExp /\ link_data.expires_at.aware
        THEN Out(s, s.links, s.cache, "TypeError", {}, <<>>, 0)
        ELSE IF link_data.expires_at # NoExp /\ NotInFuture(link_data.expires_at, s.now)
        THEN Out(s, s.links, s.cache, "ExpirationInPast", {}, <<>>, 0)
        ELSE IF ~UniqueIndexOk(updated)
        THEN Out(s, s.links, s.cache, "IntegrityError", {}, <<>>, 0)
        ELSE Out(s, updated, d2, "link", {i}, calls, 1)

delete_link_keeping(s, short_code, user) ==
    LET S == ActiveByCode(s.links, short_code)
        i == First(S)
    IN  IF S = {}
        THEN Out(s, s.links, s.cache, "False", {}, <<>>, 0)
        ELSE IF NotOwner(s.links[i], user)
        THEN Out(s, s.links, s.cache, "Forbidden", {}, <<>>, 0)
        ELSE Out(s, [s.links EXCEPT ![i].is_active = FALSE], s.cache, "True", {}, <<>>, 1)

(* delete_link *)
delete_link(s, short_code, user) ==
    LET S == ActiveByCode(s.links, short_code)
        i == First(S)
    IN  IF S = {}
        THEN Out(s, s.links, s.cache, "False", {}, <<>>, 0)
        ELSE IF NotOwner(s.links[i], user)
        THEN Out(s, s.links, s.cache, "Forbidden", {}, <<>>, 0)
        ELSE Out(s, [s.links EXCEPT ![i].is_active = FALSE],
                 [s.cache EXCEPT ![short_code] = NoEntry],
                 "True", {}, <<CDel(short_code)>>, 1)

----------------------------------------------------------------------------
(* admin_service *)

force_delete_link_hard(s, short_code) ==
    LET S == ActiveByCode(s.links, short_code)
        Kept(l) == ~(l.short_code = short_code /\ l.is_active)
    IN  IF S = {}
        THEN Out(s, s.links, s.cache, "False", {}, <<>>, 0)
        ELSE Out(s, SelectSeq(s.links, Kept),
                 [s.cache EXCEPT ![short_code] = NoEntry],
                 "True", {}, <<CDel(short_code)>>, 1)

force_delete_link(s, short_code) ==
    LET S == ActiveByCode(s.links, short_code)
        i == First(S)
    IN  IF S = {}
        THEN Out(s, s.links, s.cache, "False", {}, <<>>, 0)
        ELSE Out(s, [s.links EXCEPT ![i].is_active = FALSE],
                 [s.cache EXCEPT ![short_code] = NoEntry],
                 "True", {}, <<CDel(short_code)>>, 1)

(* the rows of a query result, in id order *)
RECURSIVE InOrder(_)
InOrder(S) == IF S = {} THEN <<>> ELSE <<First(S)>> \o InOrder(S \ {First(S)})

(* redis.delete for each row of a result *)
RECURSIVE DelCalls(_, _)
DelCalls(ls, order) ==
    IF order = <<>> THEN <<>>
    ELSE <<CDel(ls[Head(order)].short_code)>> \o DelCalls(ls, Tail(order))

DropKeys(ch, ls, S) ==
    [k \in DOMAIN ch |-> IF \E i \in S : ls[i].short_code = k THEN NoEntry ELSE ch[k]]

Deactivate(ls, S) ==
    [i \in Ids(ls) |-> IF i \in S THEN [ls[i] EXCEPT !.is_active = FALSE] ELSE ls[i]]

(* delete_user without the user_id filter of its link query *)
delete_user_sweeping(s, user_id) ==
    LET S == Ids(s.links)
        orphaned == [i \in Ids(s.links) |->
                        [s.links[i] EXCEPT !.is_active = FALSE, !.user_id = NoneUser]]
    IN  IF user_id \notin s.users \/ user_id \in AdminIds
        THEN Out(s, s.links, s.cache, "False", {}, <<>>, 0)
        ELSE [Out(s, orphaned, DropKeys(s.cache, s.links, S), "True", {},
                  DelCalls(s.links, InOrder(S)), 1)
                EXCEPT !.users = s.users \ {user_id}]

(* delete_user; the rows of the deleted user lose their owner with the user row *)
delete_user(s, user_id) ==
    LET S == {i \in Ids(s.links) : s.links[i].user_id = user_id}
        orphaned == [i \in Ids(s.links) |->
                        IF i \in S
                        THEN [s.links[i] EXCEPT !.is_active = FALSE, !.user_id = NoneUser]
                        ELSE s.links[i]]
    IN  IF user_id \notin s.users \/ user_id \in AdminIds
        THEN Out(s, s.links, s.cache, "False", {}, <<>>, 0)
        ELSE [Out(s, orphaned, DropKeys(s.cache, s.links, S), "True", {},
                  DelCalls(s.links, InOrder(S)), 1)
                EXCEPT !.users = s.users \ {user_id}]

----------------------------------------------------------------------------
(* sweeps *)

cleanup_expired_links_eager(s) ==
    LET expired_links == {i \in Ids(s.links) :
                            s.links[i].is_active /\ Expired(s.links[i], s.now)}
    IN  Out(s, Deactivate(s.links, expired_links),
            DropKeys(s.cache, s.links, expired_links),
            "count", expired_links, DelCalls(s.links, InOrder(expired_links)), 1)

(* link_service.cleanup_expired_links; the count it returns is the size of ids *)
cleanup_expired_links(s) ==
    LET expired_links == {i \in Ids(s.links) :
                            s.links[i].is_active /\ Expired(s.links[i], s.now)}
    IN  IF expired_links = {}
        THEN Out(s, s.links, s.cache, "count", {}, <<>>, 0)
        ELSE Out(s, Deactivate(s.links, expired_links),
                 DropKeys(s.cache, s.links, expired_links),
                 "count", expired_links,
                 DelCalls(s.links, InOrder(expired_links)), 1)

(* count = 0; for link in expired_links: count += 1; return count *)
RECURSIVE CountLoop(_, _)
CountLoop(order, count) ==
    IF order = <<>> THEN count ELSE CountLoop(Tail(order), count + 1)

(* the integer link_service.cleanup_expired_links returns *)
cleanup_expired_count(s) ==
    LET expired_links == {i \in Ids(s.links) :
                            s.links[i].is_active /\ Expired(s.links[i], s.now)}
    IN  IF expired_links = {} THEN 0 ELSE CountLoop(InOrder(expired_links), 0)

(* app/cleanup.py: the expired sweep, then the unused sweep; no cache call *)
cleanup_script(s) ==
    LET expired_links == {i \in Ids(s.links) :
                            s.links[i].is_active /\ Expired(s.links[i], s.now)}
        ls1 == Deactivate(s.links, expired_links)
        cutoff_date == s.now - InactiveDays
        unused_links == {i \in Ids(ls1) : ls1[i].is_active /\ ls1[i].last_used_at # NoneT
                                          /\ ls1[i].last_used_at < cutoff_date}
    IN  Out(s, Deactivate(ls1, unused_links), s.cache, "done",
            expired_links \cup unused_links, <<>>,
            (IF expired_links # {} THEN 1 ELSE 0) + (IF unused_links # {} THEN 1 ELSE 0))

----------------------------------------------------------------------------
(* The same functions while the redis server cannot be reached: the first  *)
(* redis command a function issues raises redis.exceptions.ConnectionError *)
(* and no function catches it; what was committed before stays committed   *)

get_link_by_short_code_unreachable(s, short_code, is_redirect) ==
    Out(s, s.links, s.cache, "ConnectionError", {}, <<CGet(short_code)>>, 0)

update_link_unreachable(s, short_code, link_data, user) ==
    LET o == update_link(s, short_code, link_data, user)
    IN  IF o.calls # <<>>
        THEN Out(s, o.links, s.cache, "ConnectionError", {}, <<Head(o.calls)>>, o.commits)
        ELSE o

delete_link_unreachable(s, short_code, user) ==
    LET o == delete_link(s, short_code, user)
    IN  IF o.calls # <<>>
        THEN Out(s, o.links, s.cache, "ConnectionError", {}, <<Head(o.calls)>>, o.commits)
        ELSE o

(* redis.delete is called inside the loop, before the commit *)
cleanup_expired_links_unreachable(s) ==
    LET o == cleanup_expired_links(s)
    IN  IF o.calls # <<>>
        THEN Out(s, s.links, s.cache, "ConnectionError", {}, <<Head(o.calls)>>, 0)
        ELSE o

----------------------------------------------------------------------------
(* Requests in flight, each with its own database session: the position   *)
(* of the request in get_link_by_short_code and the row its query loaded   *)

Procs == {1, 2}

NoRow == Link(NoneStr, NoneUrl, NoneStr, NoneT, NoneUser, NoneT)

(* overlap is not program state: it notes, for a finished update, whether *)
(* a lookup of the old code was past its query when the old key was       *)
(* deleted                                                                 *)
IdleSession == [pc |-> "idle", code |-> NoneStr, is_redirect |-> FALSE, hit |-> FALSE,
                id |-> 0, row |-> NoRow, t |-> NoneT, overlap |-> FALSE]

----------------------------------------------------------------------------
(* Requests the model issues *)

OneRow == {1}
TwoRows == {1, 2}

CreateRequests ==
    {[user |-> u, data |-> LinkCreate(url, alias, NoExp)] :
        u \in {NoneUser, 1}, url \in Urls, alias \in {NoneStr, gen1}}
    \cup {[user |-> NoneUser, data |-> LinkCreate("https://a", NoneStr, e)] :
            e \in ExpInputs}
    \cup {[user |-> 1, data |-> LinkCreate("https://a", a, NoExp)] : a \in {short1, gen2}}

UpdateRequests ==
    {LinkUpdate(url, NoneStr, NoExp) : url \in Urls \cup {NoneUrl}}
    \cup {LinkUpdate(NoneUrl, a, NoExp) : a \in {short1, gen1, gen2}}
    \cup {LinkUpdate(NoneUrl, NoneStr, e) : e \in ExpInputs}
    \cup {LinkUpdate("https://b", gen2, [t |-> now, aware |-> FALSE])}

OutageCreateRequests ==
    {[user |-> u, data |-> LinkCreate("https://a", NoneStr, NoExp)] : u \in {NoneUser, 1}}

OutageUpdateRequests ==
    {LinkUpdate("https://b", NoneStr, NoExp), LinkUpdate(NoneUrl, gen1, NoExp)}

PairCreateRequests ==
    {[user |-> u, data |-> LinkCreate("https://a", alias, NoExp)] :
        u \in {NoneUser, 1}, alias \in {NoneStr, gen1, gen2}}

PairUpdateRequests ==
    {LinkUpdate(NoneUrl, a, NoExp) : a \in {gen1, gen2}}
    \cup {LinkUpdate("https://b", NoneStr, NoExp)}

----------------------------------------------------------------------------
Init ==
    /\ links = <<>>
    /\ users = UserIds
    /\ cache = [c \in Codes |-> NoEntry]
    /\ now = 0
    /\ ret = NoRet("init")
    /\ sessions = [p \in Procs |-> IdleSession]

(* The response recorded in ret: a specification records the responses of *)
(* the operations in F and notes every other request as "other"           *)
AllOps ==
    {"tick", "ttl", "create", "redirect", "info", "link_info", "stats", "search",
     "update", "delete", "force_delete", "delete_user", "sweep", "script"}

Observe(F, r) == IF r.op \in F THEN r ELSE NoRet("other")

Apply(F, op, o) ==
    /\ links' = o.links
    /\ users' = o.users
    /\ cache' = o.cache
    /\ ret' = Observe(F, Ret(op, o))
    /\ UNCHANGED <<now, sessions>>

(* the clock advances between requests *)
Tick(F) ==
    /\ now < MaxTime
    /\ now' = now + 1
    /\ ret' = Observe(F, NoRet("tick"))
    /\ UNCHANGED <<links, users, cache, sessions>>

(* a cache entry reaches its TTL *)
CacheExpire(F) ==
    \E k \in Codes :
        /\ cache[k] # NoEntry
        /\ cache' = [cache EXCEPT ![k] = NoEntry]
        /\ ret' = Observe(F, NoRet("ttl"))
        /\ UNCHANGED <<links, users, now, sessions>>

CreateLinkOf(F, requests, rows) ==
    \E r \in requests :
        /\ r.user \in users \cup {NoneUser}
        /\ \E o \in create_link(Cur, r.data, r.user) :
            /\ Ids(o.links) \subseteq rows
            /\ Apply(F, "create", o)

GetLinkOf(F, flags) ==
    \E code \in GenCodes : \E is_redirect \in flags :
        LET o == get_link_by_short_code(Cur, code, is_redirect)
        IN  /\ \A i \in Ids(o.links) : o.links[i].clicks <= MaxClicks
            /\ Apply(F, IF is_redirect THEN "redirect" ELSE "info", o)

UpdateLinkOf(F, requests) ==
    \E code \in GenCodes : \E user \in users : \E link_data \in requests :
        Apply(F, "update", update_link(Cur, code, link_data, user))

CreateLink(F) == CreateLinkOf(F, CreateRequests, OneRow)

GetLink(F) == GetLinkOf(F, BOOLEAN)

GetLinkInfo(F) ==
    \E code \in GenCodes :
        LET o == get_link_info(Cur, code)
        IN  /\ \A i \in Ids(o.links) : o.links[i].clicks <= MaxClicks
            /\ Apply(F, "link_info", o)

GetStats(F) ==
    \E code \in GenCodes : Apply(F, "stats", get_link_stats(Cur, code))

Search(F) ==
    \E url \in Urls : Apply(F, "search", search_by_original_url(Cur, url))

UpdateLink(F) == UpdateLinkOf(F, UpdateRequests)

DeleteLink(F) ==
    \E code \in GenCodes : \E user \in users :
        Apply(F, "delete", delete_link(Cur, code, user))

ForceDeleteLink(F) ==
    \E code \in GenCodes : Apply(F, "force_delete", force_delete_link(Cur, code))

DeleteUser(F) ==
    \E user_id \in UserIds \cup {GhostUser} :
        Apply(F, "delete_user", delete_user(Cur, user_id))

Sweep(F) == Apply(F, "sweep", cleanup_expired_links(Cur))

SweepScript(F) == Apply(F, "script", cleanup_script(Cur))

(* one link row, every field and every request varied *)
NextOf(F) ==
    \/ Tick(F)
    \/ CacheExpire(F)
    \/ CreateLink(F)
    \/ GetLink(F)
    \/ GetLinkInfo(F)
    \/ GetStats(F)
    \/ Search(F)
    \/ UpdateLink(F)
    \/ DeleteLink(F)
    \/ ForceDeleteLink(F)
    \/ DeleteUser(F)
    \/ Sweep(F)
    \/ SweepScript(F)

Next == NextOf(AllOps)

Spec == Init /\ [][Next]_vars

(* the same program, recording the responses of the reads by code *)
NextRead == NextOf({"redirect", "info"})

SpecRead == Init /\ [][NextRead]_vars

(* the same program, recording the responses of create_link *)
NextCreate == NextOf({"create"})

SpecCreate == Init /\ [][NextCreate]_vars

(* the same program, recording the responses of update_link and delete_link *)
NextUpdate == NextOf({"update", "delete"})

SpecUpdate == Init /\ [][NextUpdate]_vars

(* the same program, recording the responses of update_link *)
NextPatch == NextOf({"update"})

SpecPatch == Init /\ [][NextPatch]_vars

(* the same program, recording the responses of delete_link *)
NextDelete == NextOf({"delete"})

SpecDelete == Init /\ [][NextDelete]_vars

(* the same program, recording the responses of the admin operations and *)
(* of the sweeps                                                          *)
NextAdmin == NextOf({"force_delete", "delete_user", "sweep", "script"})

SpecAdmin == Init /\ [][NextAdmin]_vars

(* requests served while redis cannot be reached *)
GetLinkUnreachable ==
    \E code \in GenCodes : \E is_redirect \in BOOLEAN :
        Apply(AllOps, IF is_redirect THEN "redirect" ELSE "info",
              get_link_by_short_code_unreachable(Cur, code, is_redirect))

UpdateLinkUnreachable ==
    \E code \in GenCodes : \E user \in users : \E link_data \in OutageUpdateRequests :
        Apply(AllOps, "update", update_link_unreachable(Cur, code, link_data, user))

DeleteLinkUnreachable ==
    \E code \in GenCodes : \E user \in users :
        Apply(AllOps, "delete", delete_link_unreachable(Cur, code, user))

SweepUnreachable == Apply(AllOps, "sweep", cleanup_expired_links_unreachable(Cur))

NextOutage ==
    \/ Tick(AllOps)
    \/ CreateLinkOf({}, OutageCreateRequests, OneRow)
    \/ GetLinkOf({}, BOOLEAN)
    \/ GetLinkUnreachable
    \/ UpdateLinkUnreachable
    \/ DeleteLinkUnreachable
    \/ SweepUnreachable

SpecOutage == Init /\ [][NextOutage]_vars

(* two link rows that compete for the codes *)
PairCreateLink == CreateLinkOf(AllOps, PairCreateRequests, TwoRows)

PairGetLink == GetLinkOf(AllOps, {FALSE})

PairUpdateLink == UpdateLinkOf(AllOps, PairUpdateRequests)

NextPair ==
    \/ Tick(AllOps)
    \/ PairCreateLink
    \/ PairGetLink
    \/ PairUpdateLink
    \/ DeleteLink(AllOps)
    \/ ForceDeleteLink(AllOps)
    \/ DeleteUser(AllOps)
    \/ Sweep(AllOps)
    \/ SweepScript(AllOps)

SpecPair == Init /\ [][NextPair]_vars

(* the requests of the link service and of the admin service one after   *)
(* another over two link rows, without the cleanup script and without TTL *)
(* expiry; the reads are lookups without redirect, which treat the cache  *)
(* as the redirects do; no response is recorded                           *)
SeqCreateLink == CreateLinkOf({}, PairCreateRequests, TwoRows)

SeqGetLink == GetLinkOf({}, {FALSE})

SeqUpdateLink == UpdateLinkOf({}, PairUpdateRequests)

NextSeq ==
    \/ Tick({})
    \/ SeqCreateLink
    \/ SeqGetLink
    \/ SeqUpdateLink
    \/ DeleteLink({})
    \/ ForceDeleteLink({})
    \/ DeleteUser({})
    \/ Sweep({})

SpecSeq == Init /\ [][NextSeq]_vars

(* two link rows that are created, followed and updated *)
TwoCreateRequests ==
    {[user |-> NoneUser, data |-> LinkCreate("https://a", NoneStr, NoExp)]}

TwoCreateLink == CreateLinkOf({}, TwoCreateRequests, TwoRows)

NextTwo ==
    \/ Tick({})
    \/ TwoCreateLink
    \/ GetLinkOf({}, {TRUE})
    \/ SeqUpdateLink

SpecTwo == Init /\ [][NextTwo]_vars

(* two link rows whose aliases are changed; the responses of update_link *)
(* are recorded                                                          *)
AliasUpdateRequests ==
    {LinkUpdate(NoneUrl, a, NoExp) : a \in {short1, gen1, gen2}}
    \cup {LinkUpdate("https://b", gen1, NoExp)}

AliasCreateLink == CreateLinkOf({"update"}, PairCreateRequests, TwoRows)

AliasGetLink == GetLinkOf({"update"}, {FALSE})

AliasUpdateLink == UpdateLinkOf({"update"}, AliasUpdateRequests)

NextAlias ==
    \/ Tick({"update"})
    \/ AliasCreateLink
    \/ AliasGetLink
    \/ AliasUpdateLink
    \/ DeleteLink({"update"})

SpecAlias == Init /\ [][NextAlias]_vars

(* two link rows of several owners; users are deleted and the responses *)
(* of delete_user are recorded                                          *)
OwnerCreateRequests ==
    {[user |-> u, data |-> LinkCreate(url, alias, NoExp)] :
        u \in {NoneUser} \cup UserIds, url \in Urls, alias \in {NoneStr, gen1}}

OwnerCreateLink == CreateLinkOf({"delete_user"}, OwnerCreateRequests, TwoRows)

OwnerGetLink == GetLinkOf({"delete_user"}, {FALSE})

NextOwner ==
    \/ Tick({"delete_user"})
    \/ OwnerCreateLink
    \/ OwnerGetLink
    \/ DeleteLink({"delete_user"})
    \/ DeleteUser({"delete_user"})

SpecOwner == Init /\ [][NextOwner]_vars

(* two link rows of several owners; the responses of the search are *)
(* recorded                                                         *)
SearchCreateLink == CreateLinkOf({"search"}, OwnerCreateRequests, TwoRows)

SearchGetLink == GetLinkOf({"search"}, {FALSE})

NextSearch ==
    \/ Tick({"search"})
    \/ SearchCreateLink
    \/ SearchGetLink
    \/ DeleteLink({"search"})
    \/ Search({"search"})

SpecSearch == Init /\ [][NextSearch]_vars

----------------------------------------------------------------------------
(* get_link_by_short_code statement by statement, for requests that        *)
(* overlap: redis.get, the query, the commit, the cache write              *)

ConcCreateRequests ==
    {[user |-> NoneUser, data |-> LinkCreate("https://a", NoneStr, NoExp)]}

ConcUpdateRequests ==
    {LinkUpdate("https://b", NoneStr, NoExp)}

Finish(p, op, res, ids) ==
    /\ sessions' = [sessions EXCEPT ![p] = IdleSession]
    /\ ret' = [op |-> op, res |-> res, ids |-> ids, calls |-> <<>>, commits |-> 0]

OpName(p) == IF sessions[p].is_redirect THEN "redirect" ELSE "info"

(* lines 103-108: cached_original_url = redis.get(cache_key) *)
ReadBegin(p) ==
    /\ sessions[p].pc = "idle"
    /\ \E code \in {gen1} : \E is_redirect \in {TRUE} :
        sessions' = [sessions EXCEPT ![p] =
            [IdleSession EXCEPT !.pc = "query", !.code = code,
                                !.is_redirect = is_redirect,
                                !.hit = Truthy(cache[code])]]
    /\ UNCHANGED <<links, users, cache, now, ret>>

(* lines 112-118 and 136-141: the query, then now = datetime.now() *)
ReadQuery(p) ==
    LET me == sessions[p]
        S == ActiveByCode(links, me.code)
        i == First(S)
        loaded == [me EXCEPT !.id = i, !.row = links[i], !.t = now]
    IN  /\ me.pc = "query"
        /\ IF S = {}
           THEN IF me.hit
                THEN /\ sessions' = [sessions EXCEPT ![p].pc = "delete"]
                     /\ UNCHANGED ret
                ELSE Finish(p, OpName(p), "None", {})
           ELSE IF Expired(links[i], now)
           THEN /\ sessions' = [sessions EXCEPT ![p] = [loaded EXCEPT !.pc = "expire"]]
                /\ UNCHANGED ret
           ELSE IF me.is_redirect
           THEN /\ sessions' = [sessions EXCEPT ![p] = [loaded EXCEPT !.pc = "click"]]
                /\ UNCHANGED ret
           ELSE IF me.hit
           THEN Finish(p, OpName(p), "link", {i})
           ELSE /\ sessions' = [sessions EXCEPT ![p] = [loaded EXCEPT !.pc = "set"]]
                /\ UNCHANGED ret
        /\ UNCHANGED <<links, users, cache, now>>

ReadCommit_wholeRow(p) ==
    LET me == sessions[p]
    IN  /\ me.pc \in {"expire", "click"}
        /\ IF me.pc = "expire"
           THEN /\ links' = [links EXCEPT ![me.id].is_active = FALSE]
                /\ IF me.hit
                   THEN /\ sessions' = [sessions EXCEPT ![p].pc = "delete"]
                        /\ UNCHANGED ret
                   ELSE Finish(p, OpName(p), "None", {})
           ELSE /\ me.row.clicks + 1 <= MaxClicks
                /\ links' = [links EXCEPT ![me.id] =
                                [me.row EXCEPT !.clicks = me.row.clicks + 1,
                                               !.last_used_at = me.t]]
                /\ IF me.hit
                   THEN Finish(p, OpName(p), "link", {me.id})
                   ELSE /\ sessions' = [sessions EXCEPT ![p].pc = "reload"]
                        /\ UNCHANGED ret
        /\ UNCHANGED <<users, cache, now>>

(* lines 119-120, 125-127, 142-143, 149-151: the session flushes the        *)
(* attributes it assigned as UPDATE links SET ... WHERE id = :id            *)
ReadCommit(p) ==
    LET me == sessions[p]
    IN  /\ me.pc \in {"expire", "click"}
        /\ IF me.pc = "expire"
           THEN /\ links' = [links EXCEPT ![me.id].is_active = FALSE]
                /\ IF me.hit
                   THEN /\ sessions' = [sessions EXCEPT ![p].pc = "delete"]
                        /\ UNCHANGED ret
                   ELSE Finish(p, OpName(p), "None", {})
           ELSE /\ me.row.clicks + 1 <= MaxClicks
                /\ links' = [links EXCEPT ![me.id].clicks = me.row.clicks + 1,
                                          ![me.id].last_used_at = me.t]
                /\ IF me.hit
                   THEN Finish(p, OpName(p), "link", {me.id})
                   ELSE /\ sessions' = [sessions EXCEPT ![p].pc = "reload"]
                        /\ UNCHANGED ret
        /\ UNCHANGED <<users, cache, now>>

(* line 154, the argument db_link.original_url: the commit has expired the *)
(* loaded attributes, so the session selects the row again                 *)
ReadReload(p) ==
    LET me == sessions[p]
    IN  /\ me.pc = "reload"
        /\ sessions' = [sessions EXCEPT ![p] = [me EXCEPT !.row = links[me.id], !.pc = "set"]]
        /\ UNCHANGED <<links, users, cache, now, ret>>

(* lines 121, 132, 154: redis.delete, or redis.set with the original_url *)
(* the session holds                                                     *)
ReadCache(p) ==
    LET me == sessions[p]
    IN  /\ me.pc \in {"delete", "set"}
        /\ IF me.pc = "delete"
           THEN /\ cache' = [cache EXCEPT ![me.code] = NoEntry]
                /\ Finish(p, OpName(p), "None", {})
           ELSE /\ cache' = [cache EXCEPT ![me.code] = me.row.original_url]
                /\ Finish(p, OpName(p), "link", {me.id})
        /\ UNCHANGED <<links, users, now>>

ConcCreateLink == CreateLinkOf(AllOps, ConcCreateRequests, OneRow)

ConcUpdateLink == UpdateLinkOf(AllOps, ConcUpdateRequests)

ConcReadBegin == \E p \in Procs : ReadBegin(p)

ConcReadQuery == \E p \in Procs : ReadQuery(p)

ConcReadCommit == \E p \in Procs : ReadCommit(p)

ConcReadReload == \E p \in Procs : ReadReload(p)

ConcReadCache == \E p \in Procs : ReadCache(p)

NextConc ==
    \/ Tick(AllOps)
    \/ ConcCreateLink
    \/ ConcUpdateLink
    \/ ConcReadBegin
    \/ ConcReadQuery
    \/ ConcReadCommit
    \/ ConcReadReload
    \/ ConcReadCache

SpecConc == Init /\ [][NextConc]_vars

----------------------------------------------------------------------------
(* update_link statement by statement, for an update that overlaps with    *)
(* lookups: the query, the checks and the commit, then the two             *)
(* redis.delete calls.  A finished update keeps the row it had loaded.     *)

StaleUpdateRequests ==
    {LinkUpdate("https://b", NoneStr, NoExp), LinkUpdate(NoneUrl, gen2, NoExp),
     LinkUpdate("https://b", gen2, NoExp)}

(* the lookups of a code that are past their query *)
ReadersPastQuery(code) ==
    {q \in Procs : sessions[q].pc \in {"click", "reload", "set"} /\ sessions[q].code = code}

(* lines 167-212: db_link is loaded, checked, assigned and committed *)
UpdateCommit(p) ==
    /\ sessions[p].pc = "idle"
    /\ \E short_code \in GenCodes : \E user \in users : \E link_data \in StaleUpdateRequests :
        LET o == update_link(Cur, short_code, link_data, user)
            i == First(o.ids)
            db_link == links[i]
            new_cache_key == IF o.links[i].short_code # db_link.short_code
                                \/ o.links[i].custom_alias # db_link.custom_alias
                             THEN o.links[i].short_code ELSE NoneStr
        IN  IF o.res = "link"
            THEN /\ links' = o.links
                 /\ sessions' = [sessions EXCEPT ![p] =
                        [IdleSession EXCEPT !.pc = "del_old", !.code = new_cache_key,
                                            !.id = i, !.row = db_link]]
                 /\ UNCHANGED ret
            ELSE /\ links' = links
                 /\ Finish(p, "update", o.res, {})
    /\ UNCHANGED <<users, cache, now>>

UpdateDelete_skipped(p) ==
    LET me == sessions[p]
    IN  /\ me.pc \in {"del_old", "del_new"}
        /\ sessions' = [sessions EXCEPT ![p].pc = "updated"]
        /\ ret' = [op |-> "update", res |-> "link", ids |-> {me.id}, calls |-> <<>>,
                   commits |-> 1]
        /\ UNCHANGED <<links, users, cache, now>>

(* lines 215-219: redis.delete(original_cache_key), then, after a change *)
(* of alias, redis.delete(new_cache_key)                                 *)
UpdateDelete(p) ==
    LET me == sessions[p]
    IN  /\ me.pc \in {"del_old", "del_new"}
        /\ IF me.pc = "del_old"
           THEN /\ cache' = [cache EXCEPT ![me.row.short_code] = NoEntry]
                /\ sessions' = [sessions EXCEPT ![p] =
                        [me EXCEPT !.pc = IF me.code # NoneStr THEN "del_new" ELSE "updated",
                                   !.overlap = ReadersPastQuery(me.row.short_code) # {}]]
           ELSE /\ cache' = [cache EXCEPT ![me.code] = NoEntry]
                /\ sessions' = [sessions EXCEPT ![p].pc = "updated"]
        /\ ret' = IF sessions'[p].pc = "updated"
                  THEN [op |-> "update", res |-> "link", ids |-> {me.id}, calls |-> <<>>,
                        commits |-> 1]
                  ELSE ret
        /\ UNCHANGED <<links, users, now>>

StaleUpdateCommit == \E p \in Procs : UpdateCommit(p)

StaleUpdateDelete == \E p \in Procs : UpdateDelete(p)

NextStale ==
    \/ ConcCreateLink
    \/ ConcReadBegin
    \/ ConcReadQuery
    \/ ConcReadCommit
    \/ ConcReadReload
    \/ ConcReadCache
    \/ StaleUpdateCommit
    \/ StaleUpdateDelete

SpecStale == Init /\ [][NextStale]_vars

(* one lookup at a time, in flight while the link is deactivated by its *)
(* deletion, by an admin or by the sweep                                 *)
Reader == 1

InFlightReadBegin == ReadBegin(Reader)

InFlightReadQuery == ReadQuery(Reader)

InFlightReadCommit == ReadCommit(Reader)

InFlightReadReload == ReadReload(Reader)

InFlightReadCache == ReadCache(Reader)

NextInFlight ==
    \/ Tick({})
    \/ ConcCreateLink
    \/ InFlightReadBegin
    \/ InFlightReadQuery
    \/ InFlightReadCommit
    \/ InFlightReadReload
    \/ InFlightReadCache
    \/ DeleteLink({})
    \/ ForceDeleteLink({})
    \/ Sweep({})

SpecInFlight == Init /\ [][NextInFlight]_vars

----------------------------------------------------------------------------
(* create_link without alias by an anonymous caller, statement by          *)
(* statement, for requests that overlap: the generation loop with its      *)
(* query, then db.add and db.commit                                        *)

(* lines 46-54, 72-81: a generated code no active link carries is adopted *)
CreateBegin(p) ==
    /\ sessions[p].pc = "idle"
    /\ \E short_code \in generate_short_code(SHORT_CODE_LENGTH) :
        /\ ActiveByCode(links, short_code) = {}
        /\ sessions' = [sessions EXCEPT ![p] =
                [IdleSession EXCEPT !.pc = "insert", !.code = short_code, !.t = now]]
    /\ UNCHANGED <<links, users, cache, now, ret>>

(* lines 84-96: the INSERT; a violation of the unique index is raised to   *)
(* the caller, the function has no handler and no second attempt           *)
CreateCommit(p) ==
    LET me == sessions[p]
        added == Append(links, Link(me.code, "https://a", NoneStr, me.t + InactiveDays,
                                    NoneUser, now))
    IN  /\ me.pc = "insert"
        /\ Len(added) \in TwoRows
        /\ IF UniqueIndexOk(added)
           THEN /\ links' = added
                /\ Finish(p, "create", "created", {Len(added)})
           ELSE /\ links' = links
                /\ Finish(p, "create", "IntegrityError", {})
        /\ UNCHANGED <<users, cache, now>>

RaceCreateBegin == \E p \in Procs : CreateBegin(p)

RaceCreateCommit == \E p \in Procs : CreateCommit(p)

NextRace ==
    \/ Tick(AllOps)
    \/ RaceCreateBegin
    \/ RaceCreateCommit
    \/ ForceDeleteLink(AllOps)

SpecRace == Init /\ [][NextRace]_vars

----------------------------------------------------------------------------
(* The generation loop of create_link draw by draw, for requests without   *)
(* alias by an anonymous caller                                            *)

(* every code of the configured length is the short_code of an active link *)
AllTaken ==
    \A code \in generate_short_code(SHORT_CODE_LENGTH) : ActiveByCode(links, code) # {}

(* line 44-45: the request enters the loop *)
LoopBegin(p) ==
    /\ sessions[p].pc = "idle"
    /\ sessions' = [sessions EXCEPT ![p] = [IdleSession EXCEPT !.pc = "gen"]]
    /\ UNCHANGED <<links, users, cache, now, ret>>

LoopDraw_blind(p, short_code) ==
    /\ sessions[p].pc = "gen"
    /\ sessions' = [sessions EXCEPT ![p] =
            [IdleSession EXCEPT !.pc = "insert", !.code = short_code, !.t = now]]
    /\ UNCHANGED <<links, users, cache, now, ret>>

(* lines 46-54: one iteration; short_code is what generate_short_code()  *)
(* returned; the loop is left when no active link carries it             *)
LoopDraw(p, short_code) ==
    /\ sessions[p].pc = "gen"
    /\ IF ActiveByCode(links, short_code) = {}
       THEN sessions' = [sessions EXCEPT ![p] =
                [IdleSession EXCEPT !.pc = "insert", !.code = short_code, !.t = now]]
       ELSE sessions' = sessions
    /\ UNCHANGED <<links, users, cache, now, ret>>

GenBegin == \E p \in Procs : LoopBegin(p)

GenDraw ==
    \E p \in Procs : \E short_code \in generate_short_code(SHORT_CODE_LENGTH) :
        LoopDraw(p, short_code)

NextLoop ==
    \/ Tick(AllOps)
    \/ GenBegin
    \/ GenDraw
    \/ RaceCreateCommit
    \/ ForceDeleteLink(AllOps)

(* the random source is fair: a code that is free again and again is *)
(* eventually drawn while it is free                                 *)
DrawsFreeCode(p) ==
    \E short_code \in generate_short_code(SHORT_CODE_LENGTH) :
        LoopDraw(p, short_code) /\ sessions'[p].pc = "insert"

SpecLoop == Init /\ [][NextLoop]_vars /\ \A p \in Procs : SF_vars(DrawsFreeCode(p))

----------------------------------------------------------------------------
(* Every request a caller can make in the current state *)

AllCreateData ==
    {LinkCreate(url, alias, e) :
        url \in Urls, alias \in Aliases \cup {NoneStr}, e \in ExpInputs}

AllUpdateData ==
    {LinkUpdate(url, alias, e) :
        url \in Urls \cup {NoneUrl}, alias \in Aliases \cup {NoneStr}, e \in ExpInputs}

WithCache(code, v) == [Cur EXCEPT !.cache[code] = v]

(* the same store and cache at a later time t *)
At(s, t) == [s EXCEPT !.now = t]

LaterTime == MaxTime + 1

Rejected(o) == o.res \in {"AliasTooShort", "AliasTaken", "ExpirationInPast"}

----------------------------------------------------------------------------
(* C1: no two active links ever carry the same short_code, whether the     *)
(* code was generated or chosen as an alias at create or update.           *)
C1_ActiveCodesUnique ==
    \A i \in DOMAIN links : \A j \in DOMAIN links :
        (i < j /\ links[i].is_active /\ links[j].is_active)
            => links[i].short_code # links[j].short_code

(* two active links, and a create whose alias is the generated code of one *)
(* of them has just been refused at commit                                 *)
C1_Witness ==
    /\ ret.op = "create" /\ ret.res = "IntegrityError"
    /\ Cardinality({i \in DOMAIN links : links[i].is_active}) = 2
    /\ \E i \in DOMAIN links : links[i].is_active /\ links[i].custom_alias = NoneStr

(* C2: no read path (get_link_by_short_code, get_link_stats,               *)
(* search_by_original_url) returns a link whose expires_at is in the past. *)
C2_NoExpiredLinkReturned ==
    ret.op \in {"redirect", "info", "stats", "search"}
        => \A i \in ret.ids : ~Expired(links[i], now)

(* C3: for the same store, code and is_redirect flag, get_link_by_short_code *)
(* returns the same record and leaves the same link rows whatever the cache  *)
(* holds for the key.                                                        *)
C3_CacheIndependent ==
    \A code \in Codes : \A is_redirect \in BOOLEAN : \A v \in CacheValues :
        LET a == get_link_by_short_code(Cur, code, is_redirect)
            b == get_link_by_short_code(WithCache(code, v), code, is_redirect)
        IN  a.res = b.res /\ a.ids = b.ids /\ a.links = b.links

(* a redirect read has just been answered on the cache-hit path *)
C3_Witness ==
    /\ ret.op = "redirect" /\ ret.res = "link"
    /\ \E i \in ret.ids : ret.calls = <<CGet(links[i].short_code)>>
                          /\ Truthy(cache[links[i].short_code])

(* C4: a redirect read of a valid active link adds exactly 1 to clicks and *)
(* sets last_used_at to the current time, on a hit and on a miss alike;    *)
(* two successive redirect reads add exactly 2.                            *)
C4_RedirectCountsOnce ==
    \A code \in Codes : \A v \in CacheValues : \A i \in ActiveByCode(links, code) :
        ~Expired(links[i], now) =>
            LET o1 == get_link_by_short_code(WithCache(code, v), code, TRUE)
                o2 == get_link_by_short_code(After(o1), code, TRUE)
            IN  /\ o1.res = "link" /\ o1.ids = {i}
                /\ o1.links = [links EXCEPT ![i].clicks = links[i].clicks + 1,
                                            ![i].last_used_at = now]
                /\ o2.res = "link" /\ o2.ids = {i}
                /\ o2.links = [links EXCEPT ![i].clicks = links[i].clicks + 2,
                                            ![i].last_used_at = now]

(* the second of two redirect reads has just been answered from a cache hit *)
C4_Witness ==
    /\ ret.op = "redirect" /\ ret.res = "link"
    /\ \E i \in ret.ids : /\ links[i].clicks = 2
                          /\ links[i].last_used_at = now
                          /\ ret.calls = <<CGet(links[i].short_code)>>

(* C5: clicks of every link is >= 0 and never decreases from one state to  *)
(* the next, under any interleaving of the operations.                     *)
C5_ClicksNeverDecrease ==
    [][\A i \in DOMAIN links :
        links[i].clicks >= 0 /\ (i \in DOMAIN links' => links'[i].clicks >= links[i].clicks)]_vars

(* C6 as stated: a user who has an active link for a URL and calls         *)
(* create_link with that URL gets the existing record back, nothing is     *)
(* inserted and nothing changes.                                           *)
C6_AlwaysReturnsExisting ==
    \A user \in users : \A data \in AllCreateData :
        ActiveByUserAndUrl(links, user, data.original_url) # {} =>
            \A o \in create_link(Cur, data, user) :
                /\ o.res = "existing"
                /\ o.ids \subseteq ActiveByUserAndUrl(links, user, data.original_url)
                /\ o.links = links

(* C6 amended: the alias checks come first; a call that passes them (or    *)
(* carries no alias) gets an existing record of the caller for that URL    *)
(* back, a call that fails them is rejected; in every case nothing is      *)
(* inserted or changed, and repeating the call gives the same answer.      *)
C6_ReturnsExistingAfterAliasChecks ==
    \A user \in users : \A data \in AllCreateData :
        LET mine == ActiveByUserAndUrl(links, user, data.original_url)
            alias == data.custom_alias
            badAlias == alias # NoneStr
                        /\ (Len(alias) < 4
                            \/ \E i \in DOMAIN links :
                                links[i].is_active /\ links[i].custom_alias = alias)
        IN  mine # {} =>
                \A o \in create_link(Cur, data, user) :
                    /\ o.links = links /\ o.cache = cache /\ o.commits = 0
                    /\ o.calls = <<>>
                    /\ IF badAlias THEN o.res \in {"AliasTooShort", "AliasTaken"}
                       ELSE /\ o.res = "existing"
                            /\ o.ids # {} /\ o.ids \subseteq mine
                    /\ create_link(After(o), data, user) = create_link(Cur, data, user)

(* a create has just been answered with the caller's existing link *)
C6_Witness ==
    /\ ret.op = "create" /\ ret.res = "existing"
    /\ \E i \in ret.ids : links[i].is_active /\ links[i].user_id # NoneUser

C8_PastExpiryAlwaysRejected ==
    \A user \in users \cup {NoneUser} : \A data \in AllCreateData :
        \A o \in create_link(Cur, data, user) :
            /\ (data.expires_at # NoExp /\ data.expires_at.t <= now)
                    => (Rejected(o) /\ o.links = links)
            /\ (data.expires_at = NoExp /\ o.res = "created")
                    => \A i \in o.ids : o.links[i].expires_at = now + InactiveDays

(* C9: update_link and delete_link by a user who is not the owner of an    *)
(* owned active link fail with Forbidden, commit nothing, delete no cache  *)
(* entry and leave every field of the record unchanged.                    *)
C9_NonOwnerForbidden ==
    \A code \in Codes : \A user \in users : \A i \in ActiveByCode(links, code) :
        (links[i].user_id # NoneUser /\ links[i].user_id # user) =>
            /\ \A data \in AllUpdateData :
                LET o == update_link(Cur, code, data, user)
                IN  /\ o.res = "Forbidden" /\ o.links = links /\ o.cache = cache
                    /\ o.calls = <<>> /\ o.commits = 0
            /\ LET o == delete_link(Cur, code, user)
               IN  /\ o.res = "Forbidden" /\ o.links = links /\ o.cache = cache
                   /\ o.calls = <<>> /\ o.commits = 0

(* an update of an owned active link by another user has just been refused *)
C9_Witness ==
    /\ ret.op = "update" /\ ret.res = "Forbidden"
    /\ \E i \in DOMAIN links : links[i].is_active /\ links[i].user_id = 1
    /\ 1 \in users

(* C10 as stated: after update_link changes the alias from a to b, both    *)
(* custom_alias and short_code are b, every later lookup by a returns      *)
(* not-found and every later lookup by b returns the record with the same  *)
(* id.                                                                     *)
C10_NewAliasAlwaysResolves ==
    \A i \in DOMAIN links : \A user \in users : \A data \in AllUpdateData :
        LET a == links[i].short_code
            b == data.custom_alias
            o == update_link(Cur, a, data, user)
        IN  (/\ links[i].is_active
             /\ b # NoneStr /\ b # a /\ b # links[i].custom_alias
             /\ o.res = "link") =>
                /\ o.links[i].custom_alias = b /\ o.links[i].short_code = b
                /\ \A t \in now..LaterTime : \A is_redirect \in BOOLEAN :
                    /\ get_link_by_short_code(At(After(o), t), a, is_redirect).res = "None"
                    /\ get_link_by_short_code(At(After(o), t), b, is_redirect).ids = {i}

(* C10 amended: after update_link changes the alias from a to b, both      *)
(* custom_alias and short_code are b on the same row; a later lookup by a  *)
(* returns not-found, and a later lookup by b returns that row unless its  *)
(* expires_at is before the time of the lookup, in which case the lookup   *)
(* returns not-found; at any time a lookup by a code returns exactly the   *)
(* active row with that short_code whose expires_at has not passed.        *)
C10_NewAliasResolvesUnlessExpired ==
    /\ \A i \in DOMAIN links : \A user \in users : \A data \in AllUpdateData :
        LET a == links[i].short_code
            b == data.custom_alias
            o == update_link(Cur, a, data, user)
        IN  (/\ links[i].is_active
             /\ b # NoneStr /\ b # a /\ b # links[i].custom_alias
             /\ o.res = "link") =>
                /\ o.ids = {i}
                /\ o.links[i].custom_alias = b /\ o.links[i].short_code = b
                /\ o.links[i].is_active
                /\ \A t \in now..LaterTime : \A is_redirect \in BOOLEAN :
                    LET byA == get_link_by_short_code(At(After(o), t), a, is_redirect)
                        byB == get_link_by_short_code(At(After(o), t), b, is_redirect)
                    IN  /\ byA.res = "None" /\ byA.ids = {}
                        /\ IF o.links[i].expires_at # NoneT /\ o.links[i].expires_at < t
                           THEN byB.res = "None" /\ byB.ids = {}
                           ELSE byB.res = "link" /\ byB.ids = {i}
    /\ \A c \in Codes : \A is_redirect \in BOOLEAN :
        get_link_by_short_code(Cur, c, is_redirect).ids =
            {i \in DOMAIN links : /\ links[i].is_active /\ links[i].short_code = c
                                  /\ ~(links[i].expires_at # NoneT
                                       /\ links[i].expires_at < now)}

(* an update has just moved a link to a new alias *)
C10_Witness ==
    /\ ret.op = "update" /\ ret.res = "link"
    /\ Len(ret.calls) = 2
    /\ \E i \in ret.ids : /\ links[i].short_code = links[i].custom_alias
                          /\ ret.calls[2] = CDel(links[i].short_code)
                          /\ ret.calls[1] # ret.calls[2]

(* C11: a read by code of a link whose expires_at is in the past returns   *)
(* not-found and persists is_active = false, with the cache holding a      *)
(* value for the key or not; a later read by the same code (no link having *)
(* taken the code in between) returns not-found as well and leaves the     *)
(* record inactive and the store unchanged.                                *)
C11_LazyExpiryIdempotent ==
    \A i \in DOMAIN links : \A v \in CacheValues : \A is_redirect \in BOOLEAN :
        LET c == links[i].short_code
            o1 == get_link_by_short_code(WithCache(c, v), c, is_redirect)
        IN  (/\ links[i].is_active
             /\ links[i].expires_at # NoneT /\ links[i].expires_at < now) =>
                /\ o1.res = "None" /\ o1.ids = {}
                /\ o1.links = [links EXCEPT ![i].is_active = FALSE]
                /\ o1.commits = 1
                /\ \A t \in now..LaterTime : \A w \in CacheValues : \A r \in BOOLEAN :
                    LET s1 == At(After(o1), t)
                        o2 == get_link_by_short_code([s1 EXCEPT !.cache[c] = w], c, r)
                    IN  /\ o2.res = "None" /\ o2.ids = {}
                        /\ o2.links = o1.links
                        /\ o2.commits = 0

(* a read on the cache-hit path has just found its link expired, turned it *)
(* inactive and dropped the cache entry                                    *)
C11_Witness ==
    /\ ret.op \in {"redirect", "info"} /\ ret.res = "None" /\ ret.commits = 1
    /\ \E i \in DOMAIN links :
        /\ ~links[i].is_active
        /\ links[i].expires_at # NoneT /\ links[i].expires_at < now
        /\ ret.calls = <<CGet(links[i].short_code), CDel(links[i].short_code)>>

(* C12: once is_active of a link is false no operation sets it back to     *)
(* true, and get_link_by_short_code, get_link_stats,                       *)
(* search_by_original_url, update_link, delete_link and force_delete_link  *)
(* neither return the record nor change any field of it.                   *)
C12_InactiveStaysInactive ==
    \A i \in DOMAIN links :
        LET c == links[i].short_code
            Hidden(o) == i \notin o.ids /\ o.links[i] = links[i]
        IN  ~links[i].is_active =>
            /\ \A user \in users \cup {NoneUser} : \A data \in AllCreateData :
                \A o \in create_link(Cur, data, user) : Hidden(o)
            /\ \A v \in CacheValues : \A is_redirect \in BOOLEAN :
                Hidden(get_link_by_short_code(WithCache(c, v), c, is_redirect))
            /\ Hidden(get_link_info(Cur, c))
            /\ Hidden(get_link_stats(Cur, c))
            /\ \A url \in Urls : Hidden(search_by_original_url(Cur, url))
            /\ \A user \in users : \A data \in AllUpdateData :
                Hidden(update_link(Cur, c, data, user))
            /\ \A user \in users : Hidden(delete_link(Cur, c, user))
            /\ Hidden(force_delete_link(Cur, c))
            /\ \A user_id \in UserIds \cup {GhostUser} :
                ~delete_user(Cur, user_id).links[i].is_active
            /\ ~cleanup_expired_links(Cur).links[i].is_active
            /\ ~cleanup_script(Cur).links[i].is_active

(* a delete by the code of a link that is already inactive has just        *)
(* reported not-found                                                      *)
C12_Witness ==
    /\ ret.op = "delete" /\ ret.res = "False"
    /\ links # <<>>
    /\ \A i \in DOMAIN links : ~links[i].is_active /\ links[i].short_code \in GenCodes
    /\ \E i \in DOMAIN links : links[i].custom_alias # NoneStr

C14_SweepInvalidatesCache ==
    ret.op \in {"sweep", "script"} =>
        \A i \in ret.ids : ~links[i].is_active /\ cache[links[i].short_code] = NoEntry

(* C15: a cache failure never fails a request: while redis cannot be       *)
(* reached get_link_by_short_code, update_link, delete_link and the sweep  *)
(* return the same result and leave the same store as they do when the     *)
(* cache answers with a miss, and no error reaches the caller.             *)
C15_CacheFailureIsAMiss ==
    LET empty == [Cur EXCEPT !.cache = [k \in Codes |-> NoEntry]]
        Same(a, b) == a.res = b.res /\ a.ids = b.ids /\ a.links = b.links
    IN  /\ ret.res # "ConnectionError"
        /\ \A code \in GenCodes :
            /\ \A is_redirect \in BOOLEAN :
                Same(get_link_by_short_code_unreachable(Cur, code, is_redirect),
                     get_link_by_short_code(empty, code, is_redirect))
            /\ \A user \in users :
                /\ \A data \in OutageUpdateRequests :
                    Same(update_link_unreachable(Cur, code, data, user),
                         update_link(empty, code, data, user))
                /\ Same(delete_link_unreachable(Cur, code, user),
                        delete_link(empty, code, user))
        /\ Same(cleanup_expired_links_unreachable(Cur), cleanup_expired_links(empty))

(* C16: an info or stats lookup never changes clicks or last_used_at of    *)
(* any link: get_link_by_short_code with is_redirect False, get_link_stats *)
(* and the link-info lookup of the API (get_link_info) leave both fields   *)
(* of every link as they were.                                             *)
C16_InfoNeverCounts ==
    [][ret'.op \in {"info", "link_info", "stats"} =>
        \A i \in DOMAIN links :
            /\ links'[i].clicks = links[i].clicks
            /\ links'[i].last_used_at = links[i].last_used_at]_vars

(* C17: no link record is ever removed: every operation leaves every link  *)
(* id in the table; force_delete_link succeeds on every active link,       *)
(* whoever owns it, and changes no field other than is_active.             *)
C17_NeverRemoved ==
    LET Keeps(o) == DOMAIN links \subseteq DOMAIN o.links
        RowCodes == {links[i].short_code : i \in DOMAIN links} \cup {gen1}
    IN  /\ \A user \in users \cup {NoneUser} : \A data \in AllCreateData :
            \A o \in create_link(Cur, data, user) : Keeps(o)
        /\ \A c \in RowCodes :
            /\ \A is_redirect \in BOOLEAN : Keeps(get_link_by_short_code(Cur, c, is_redirect))
            /\ \A user \in users :
                /\ \A data \in AllUpdateData : Keeps(update_link(Cur, c, data, user))
                /\ Keeps(delete_link(Cur, c, user))
            /\ Keeps(force_delete_link(Cur, c))
        /\ \A user_id \in UserIds \cup {GhostUser} : Keeps(delete_user(Cur, user_id))
        /\ Keeps(cleanup_expired_links(Cur))
        /\ Keeps(cleanup_script(Cur))
        /\ \A i \in DOMAIN links :
            links[i].is_active =>
                LET o == force_delete_link(Cur, links[i].short_code)
                IN  /\ o.res = "True"
                    /\ o.links = [links EXCEPT ![i].is_active = FALSE]
                    /\ o.users = users

(* an admin has just force-deleted a link that another user owns *)
C17_Witness ==
    /\ ret.op = "force_delete" /\ ret.res = "True"
    /\ \E i \in DOMAIN links :
        /\ ~links[i].is_active /\ links[i].user_id = 1
        /\ ret.calls = <<CDel(links[i].short_code)>>

(* C18: after a successful delete_link(code) or force_delete_link(code)    *)
(* the record is inactive, the cache holds no entry for the code, and a    *)
(* later lookup by that code (redirect, info, link info or stats) returns  *)
(* not-found, as long as no new link has taken the code.                   *)
C18_DeletedIsGone ==
    \A i \in DOMAIN links :
        LET c == links[i].short_code
            Gone(o) ==
                /\ o.res = "True"
                /\ ~o.links[i].is_active
                /\ o.cache[c] = NoEntry
                /\ \A t \in now..LaterTime :
                    LET s1 == At(After(o), t)
                    IN  /\ \A is_redirect \in BOOLEAN :
                            LET g == get_link_by_short_code(s1, c, is_redirect)
                            IN  g.res = "None" /\ g.ids = {} /\ g.links = o.links
                        /\ get_link_info(s1, c).res = "None"
                        /\ get_link_stats(s1, c).res = "None"
        IN  links[i].is_active =>
            /\ \A user \in users :
                (links[i].user_id = NoneUser \/ links[i].user_id = user)
                    => Gone(delete_link(Cur, c, user))
            /\ Gone(force_delete_link(Cur, c))

(* the owner has just deleted a link *)
C18_Witness ==
    /\ ret.op = "delete" /\ ret.res = "True"
    /\ \E i \in DOMAIN links :
        /\ ~links[i].is_active /\ links[i].user_id = 1
        /\ ret.calls = <<CDel(links[i].short_code)>>
        /\ cache[links[i].short_code] = NoEntry

(* C19: update_link and delete_link on a code that no active record       *)
(* carries report not-found (None, False) and commit nothing; they report *)
(* not-found only then, and a caller who is not the owner of the active   *)
(* record gets Forbidden, never not-found.                                *)
C19_NotFoundOnlyWhenAbsent ==
    \A c \in {links[i].short_code : i \in DOMAIN links} \cup {gen1} : \A user \in users :
        LET present == \E i \in DOMAIN links : links[i].is_active /\ links[i].short_code = c
            foreign == \E i \in DOMAIN links :
                        /\ links[i].is_active /\ links[i].short_code = c
                        /\ links[i].user_id # NoneUser /\ links[i].user_id # user
            d == delete_link(Cur, c, user)
        IN  /\ d.res = "False" <=> ~present
            /\ foreign => d.res = "Forbidden"
            /\ ~present => (d.links = links /\ d.cache = cache /\ d.commits = 0
                             /\ d.calls = <<>>)
            /\ \A data \in AllUpdateData :
                LET u == update_link(Cur, c, data, user)
                IN  /\ u.res = "None" <=> ~present
                    /\ foreign => u.res = "Forbidden"
                    /\ ~present => (u.links = links /\ u.cache = cache /\ u.commits = 0
                                     /\ u.calls = <<>>)

(* an update by a code that only an inactive record carries has just been *)
(* answered with not-found                                                *)
C19_Witness ==
    /\ ret.op = "update" /\ ret.res = "None" /\ ret.commits = 0
    /\ \E i \in DOMAIN links : ~links[i].is_active /\ links[i].short_code \in GenCodes

(* C20: when two create_link requests without alias overlap and generate   *)
(* the same code, they never both end with an active record carrying that  *)
(* code, and the request whose insert loses regenerates a code and tries   *)
(* again, so that each of the two requests ends with a created link.       *)
C20_RacingCreatesBothSucceed ==
    /\ \A i \in DOMAIN links : \A j \in DOMAIN links :
        (i < j /\ links[i].is_active /\ links[j].is_active)
            => links[i].short_code # links[j].short_code
    /\ ret.op = "create" => ret.res = "created"

(* C21: whenever get_link_by_short_code returns not-found, the cache holds *)
(* no entry for the code when the call returns; an entry that was there    *)
(* before the call has been deleted.                                        *)
C21_NotFoundLeavesNoEntry ==
    \A code \in Codes : \A is_redirect \in BOOLEAN : \A v \in CacheValues :
        LET o == get_link_by_short_code(WithCache(code, v), code, is_redirect)
        IN  o.res = "None" =>
                /\ o.cache[code] = NoEntry
                /\ \A k \in Codes \ {code} : o.cache[k] = cache[k]
                /\ Truthy(v) => o.calls = <<CGet(code), CDel(code)>>

(* a read has just found the link behind a cached code expired and has     *)
(* deleted the entry                                                        *)
C21_Witness ==
    /\ ret.op \in {"redirect", "info"} /\ ret.res = "None"
    /\ \E code \in GenCodes :
        /\ ret.calls = <<CGet(code), CDel(code)>>
        /\ cache[code] = NoEntry
        /\ \E i \in DOMAIN links : links[i].short_code = code /\ ~links[i].is_active
                                   /\ Expired(links[i], now)

(* C22: get_link_by_short_code calls redis.set only on a cache miss that   *)
(* finds an active link that is not expired, and then stores that link's   *)
(* original_url under the key with the configured TTL, for is_redirect     *)
(* True and False alike; on a hit, for an expired link and for a missing   *)
(* link it makes no redis.set and the cache gains no entry.                *)
C22_CachesOnlyValidMiss ==
    \A code \in Codes : \A is_redirect \in BOOLEAN : \A v \in CacheValues :
        LET s == WithCache(code, v)
            o == get_link_by_short_code(s, code, is_redirect)
            S == {i \in DOMAIN links : links[i].is_active /\ links[i].short_code = code
                                       /\ ~Expired(links[i], now)}
            sets == {n \in DOMAIN o.calls : o.calls[n].f = "set"}
        IN  IF ~Truthy(v) /\ S # {}
            THEN /\ \E i \in S :
                    /\ o.calls = <<CGet(code), CSet(code, links[i].original_url, 3600)>>
                    /\ o.cache = [s.cache EXCEPT ![code] = links[i].original_url]
                    /\ o.ids = {i}
            ELSE /\ sets = {}
                 /\ \A k \in Codes : o.cache[k] \in {s.cache[k], NoEntry}

(* an info lookup has just missed the cache and stored the link's URL *)
C22_Witness ==
    /\ ret.op = "info" /\ ret.res = "link"
    /\ \E i \in ret.ids :
        /\ ret.calls = <<CGet(links[i].short_code),
                         CSet(links[i].short_code, links[i].original_url, 3600)>>
        /\ cache[links[i].short_code] = links[i].original_url

(* C23: in every state reached by running create_link,                     *)
(* get_link_by_short_code, update_link, delete_link, force_delete_link,    *)
(* delete_user and cleanup_expired_links one after another, every cache    *)
(* entry under a code holds the original_url of a link that is active with *)
(* that short_code; a code taken again by a new link has no entry left     *)
(* from the link that carried it before.                                   *)
C23_CacheAgreesWithStore ==
    \A c \in Codes :
        cache[c] # NoEntry =>
            \E i \in DOMAIN links :
                /\ links[i].is_active
                /\ links[i].short_code = c
                /\ links[i].original_url = cache[c]

(* a code is carried by an inactive link and by a later active link with   *)
(* another URL, and the cache holds the URL of the active one              *)
C23_Witness ==
    \E c \in GenCodes :
        /\ Len(links) = 2
        /\ links[1].short_code = c /\ ~links[1].is_active
        /\ links[2].short_code = c /\ links[2].is_active
        /\ links[1].original_url # links[2].original_url
        /\ cache[c] = links[2].original_url

(* no request is in flight *)
Quiescent == \A p \in Procs : sessions[p].pc \in {"idle", "updated"}

(* the entry under code c is the URL of an active link with that code *)
AgreesWithStore(c) ==
    \E i \in DOMAIN links :
        links[i].is_active /\ links[i].short_code = c /\ links[i].original_url = cache[c]

(* C24 as stated: when update_link runs concurrently with                  *)
(* get_link_by_short_code on the same code, then once both have finished   *)
(* the cache holds no entry for the old code with the old URL and no entry *)
(* that differs from the store, in every interleaving.                     *)
C24_NoStaleEntryAfterRace ==
    Quiescent => \A c \in Codes : cache[c] # NoEntry => AgreesWithStore(c)

(* C24 amended: once both have finished, an entry that differs from the    *)
(* store is an entry under the code the link carried before a finished     *)
(* update, holding the link's URL from before or after that update, and it *)
(* exists only when a lookup of the old code was past its query when the   *)
(* update deleted the old key: the deletes remove what was written before  *)
(* them, not what such a lookup writes after them.  A later                *)
(* lookup of that code answers from the store, and deletes the entry when  *)
(* no active link carries the code.                                        *)
C24_StaleOnlyFromOverlappingRead ==
    Quiescent =>
        \A c \in Codes :
            (cache[c] # NoEntry /\ ~AgreesWithStore(c)) =>
                /\ \E p \in Procs :
                    /\ sessions[p].pc = "updated"
                    /\ sessions[p].row.short_code = c
                    /\ cache[c] \in {sessions[p].row.original_url,
                                    links[sessions[p].id].original_url}
                    /\ sessions[p].overlap
                /\ LET o == get_link_by_short_code(Cur, c, TRUE)
                   IN  /\ \A i \in o.ids : links[i].is_active /\ links[i].short_code = c
                       /\ ActiveByCode(links, c) = {} => o.cache[c] = NoEntry

(* an update has changed the alias and has finished, every lookup has      *)
(* finished, and the cache holds the old URL under the old code            *)
C24_Witness ==
    /\ Quiescent
    /\ \E p \in Procs :
        /\ sessions[p].pc = "updated"
        /\ sessions[p].code # NoneStr
        /\ sessions[p].code # sessions[p].row.short_code
        /\ cache[sessions[p].row.short_code] = sessions[p].row.original_url
        /\ ActiveByCode(links, sessions[p].row.short_code) = {}

(* C25: when redirect reads of the same valid link overlap, in any         *)
(* interleaving of their store read and their commit, every one of them    *)
(* raises the stored clicks by one, so that n reads end n higher: the      *)
(* commit of a redirect read leaves clicks one above the value the store   *)
(* held just before it.                                                    *)
C25_NoIncrementLost ==
    [][\A p \in Procs :
        (sessions[p].pc = "click" /\ sessions'[p].pc # "click")
            => links'[sessions[p].id].clicks = links[sessions[p].id].clicks + 1]_vars

(* C26: when the sweep, delete_link or force_delete_link deactivates a     *)
(* link while one redirect read of its code is in flight, the read's       *)
(* commit adds at most one click and never sets is_active back to true;    *)
(* the link                                                                *)
(* stays inactive, the next read of the code returns not-found, and that   *)
(* read removes the cache entry the earlier read may have written.         *)
C26_InFlightReadIsBenign ==
    /\ [](\A i \in DOMAIN links :
            ~links[i].is_active =>
                \A is_redirect \in BOOLEAN :
                    LET c == links[i].short_code
                        o == get_link_by_short_code(Cur, c, is_redirect)
                    IN  /\ o.res = "None"
                        /\ o.cache[c] = NoEntry
                        /\ o.links = links)
    /\ [][\A i \in DOMAIN links :
            /\ ~links[i].is_active => ~links'[i].is_active
            /\ links'[i].clicks <= links[i].clicks + 1]_vars

(* a redirect read has just returned a link that was deactivated while the *)
(* read was in flight: the click is recorded, the link is inactive and the *)
(* cache holds the entry the read wrote                                    *)
C26_Witness ==
    /\ ret.op = "redirect" /\ ret.res = "link"
    /\ \E i \in ret.ids :
        /\ ~links[i].is_active
        /\ links[i].clicks > 0
        /\ cache[links[i].short_code] = links[i].original_url

(* the codes of the rows, and one code no row carries *)
RowCodes == {links[i].short_code : i \in DOMAIN links} \cup {gen1}

WellFormedUpdateData ==
    {d \in AllUpdateData :
        /\ d.custom_alias = NoneStr \/ Len(d.custom_alias) >= 4
        /\ d.expires_at = NoExp \/ ~d.expires_at.aware}

(* C28: a successful update_link changes only the fields named in the      *)
(* patch (original_url; custom_alias together with short_code;             *)
(* expires_at): id, created_at, clicks, last_used_at, user_id and          *)
(* is_active of the updated link and every field of every other link are   *)
(* unchanged.                                                               *)
C28_UpdateChangesOnlyPatchedFields ==
    \A i \in DOMAIN links : \A user \in users : \A data \in WellFormedUpdateData :
        LET o == update_link(Cur, links[i].short_code, data, user)
        IN  (links[i].is_active /\ o.res = "link") =>
                  /\ DOMAIN o.links = DOMAIN links
                  /\ o.ids = {i}
                  /\ \A j \in DOMAIN links \ {i} : o.links[j] = links[j]
                  /\ o.links[i].created_at = links[i].created_at
                  /\ o.links[i].clicks = links[i].clicks
                  /\ o.links[i].last_used_at = links[i].last_used_at
                  /\ o.links[i].user_id = links[i].user_id
                  /\ o.links[i].is_active = links[i].is_active
                  /\ o.links[i].original_url =
                        IF data.original_url = NoneUrl THEN links[i].original_url
                        ELSE data.original_url
                  /\ o.links[i].expires_at =
                        IF data.expires_at = NoExp THEN links[i].expires_at
                        ELSE data.expires_at.t
                  /\ IF data.custom_alias = NoneStr
                     THEN /\ o.links[i].custom_alias = links[i].custom_alias
                          /\ o.links[i].short_code = links[i].short_code
                     ELSE /\ o.links[i].custom_alias = data.custom_alias
                          /\ o.links[i].short_code =
                                IF data.custom_alias = links[i].custom_alias
                                THEN links[i].short_code ELSE data.custom_alias

(* of two links the first has been given a new URL by an update after it  *)
(* was used, and keeps its clicks and last_used_at; the second is as it   *)
(* was created                                                            *)
C28_Witness ==
    /\ Len(links) = 2
    /\ links[1].original_url = "https://b" /\ links[1].is_active
    /\ links[1].clicks > 0 /\ links[1].last_used_at # NoneT
    /\ links[2].original_url = "https://a" /\ links[2].is_active
    /\ links[2].custom_alias = NoneStr /\ links[2].clicks > 0

(* C29: a link whose expires_at has passed is gone for update_link as it   *)
(* is for the reads: update_link on such a link does not return it and     *)
(* does not replace its expires_at, so that no operation makes an expired  *)
(* link resolvable again.                                                   *)
C29_ExpiredIsGoneForUpdate ==
    \A i \in DOMAIN links :
        (links[i].is_active /\ Expired(links[i], now)) =>
            \A user \in users : \A data \in AllUpdateData :
                LET o == update_link(Cur, links[i].short_code, data, user)
                    r == get_link_by_short_code(After(o), o.links[i].short_code, FALSE)
                IN  /\ o.res # "link"
                    /\ o.links[i].expires_at = links[i].expires_at
                    /\ r.res = "None"

(* C30: the ownership check of update_link and delete_link applies only to *)
(* links with user_id set: such a link is refused to everyone but its      *)
(* owner, the owner is never refused, and an anonymous link is updated or  *)
(* deleted by any authenticated user and stays anonymous.                  *)
C30_OwnershipOnlyForOwnedLinks ==
    \A i \in DOMAIN links : \A user \in users :
        links[i].is_active =>
            LET code == links[i].short_code
                owned == links[i].user_id # NoneUser
                d == delete_link(Cur, code, user)
            IN  /\ IF owned /\ links[i].user_id # user
                   THEN d.res = "Forbidden" /\ d.links = links
                   ELSE /\ d.res = "True"
                        /\ d.links = [links EXCEPT ![i].is_active = FALSE]
                /\ \A data \in AllUpdateData :
                    LET u == update_link(Cur, code, data, user)
                    IN  /\ IF owned /\ links[i].user_id # user
                           THEN u.res = "Forbidden" /\ u.links = links
                           ELSE u.res # "Forbidden"
                        /\ u.links[i].user_id = links[i].user_id
                        /\ (~owned /\ data.custom_alias \in {NoneStr, four1}
                            /\ (data.expires_at = NoExp
                                \/ (~data.expires_at.aware /\ data.expires_at.t > now)))
                                => u.res = "link"

(* an authenticated user has just updated an anonymous link, which is  *)
(* still anonymous                                                     *)
C30_Witness ==
    /\ ret.op = "update" /\ ret.res = "link"
    /\ \E i \in ret.ids : links[i].user_id = NoneUser /\ links[i].original_url = "https://b"

(* C31: a create_link that inserts adds exactly one record, with           *)
(* clicks = 0, is_active = true, last_used_at absent and user_id the       *)
(* caller's id (absent for an anonymous caller), leaves every other record *)
(* as it was and calls no cache operation: the cache is unchanged by the   *)
(* create, and the first read of the new code that misses the cache        *)
(* stores the new link's URL.                                               *)
C31_CreateInsertsOneFreshRecord ==
    \A user \in users \cup {NoneUser} : \A data \in AllCreateData :
        \A o \in create_link(Cur, data, user) :
            o.res = "created" =>
                LET n == Len(links) + 1
                    new == o.links[n]
                    r == get_link_by_short_code(After(o), new.short_code, TRUE)
                IN  /\ Len(o.links) = n /\ o.ids = {n}
                    /\ \A j \in DOMAIN links : o.links[j] = links[j]
                    /\ new.clicks = 0 /\ new.is_active /\ new.last_used_at = NoneT
                    /\ new.user_id = user
                    /\ new.original_url = data.original_url
                    /\ new.custom_alias = data.custom_alias
                    /\ new.created_at = now
                    /\ o.calls = <<>> /\ o.cache = cache /\ o.users = users
                    /\ o.commits = 1
                    /\ r.res = "link" /\ r.ids = {n}
                    /\ ~Truthy(cache[new.short_code]) =>
                         r.calls = <<CGet(new.short_code),
                                     CSet(new.short_code, new.original_url, 3600)>>

(* an authenticated caller has just created a link; no cache call was made *)
(* and the cache holds nothing for the new code                            *)
C31_Witness ==
    /\ ret.op = "create" /\ ret.res = "created" /\ ret.calls = <<>>
    /\ \E i \in ret.ids :
        /\ links[i].user_id = 1 /\ links[i].clicks = 0
        /\ links[i].last_used_at = NoneT /\ links[i].is_active
        /\ cache[links[i].short_code] = NoEntry

C33_LoopAdoptsFreeCodeOrSpins ==
    /\ [][\A p \in Procs :
            (sessions[p].pc = "gen" /\ sessions'[p].pc # "gen")
                => /\ ~AllTaken
                   /\ sessions'[p].pc = "insert"
                   /\ ActiveByCode(links, sessions'[p].code) = {}]_vars
    /\ \A p \in Procs :
        (sessions[p].pc = "gen") ~> (sessions[p].pc # "gen" \/ AllTaken)

(* a request has left the loop with a free code while the other code is *)
(* carried by an active link                                            *)
C33_Witness ==
    \E p \in Procs :
        /\ sessions[p].pc = "insert"
        /\ ActiveByCode(links, sessions[p].code) = {}
        /\ \E code \in generate_short_code(SHORT_CODE_LENGTH) :
            code # sessions[p].code /\ ActiveByCode(links, code) # {}

(* C34: update_link accepts a new alias only if it has at least 4          *)
(* characters and no other active link uses it; the link's own current     *)
(* alias is accepted and leaves short_code and the cache key unchanged,    *)
(* and the cache entry of the old code is still deleted after the commit.  *)
C34_UpdateAliasRules ==
    \A i \in DOMAIN links : \A user \in users :
        (links[i].is_active /\ ~NotOwner(links[i], user)) =>
            \A alias \in Aliases : \A url \in {NoneUrl, "https://b"} :
                LET code == links[i].short_code
                    u == update_link(Cur, code, LinkUpdate(url, alias, NoExp), user)
                    usedByOther == \E k \in DOMAIN links \ {i} :
                                        /\ links[k].is_active
                                        /\ alias \in {links[k].short_code, links[k].custom_alias}
                IN  IF alias = links[i].custom_alias
                    THEN /\ u.res = "link" /\ u.ids = {i}
                         /\ u.links[i].short_code = code
                         /\ u.links[i].custom_alias = alias
                         /\ u.calls = <<CDel(code)>>
                         /\ u.cache = [cache EXCEPT ![code] = NoEntry]
                    ELSE /\ u.res = "link" <=> (Len(alias) >= 4 /\ ~usedByOther)
                         /\ u.res = "link" =>
                                /\ u.links[i].short_code = alias
                                /\ u.links[i].custom_alias = alias
                                /\ u.calls = <<CDel(code), CDel(alias)>>
                                /\ u.cache = [cache EXCEPT ![code] = NoEntry, ![alias] = NoEntry]
                         /\ u.res # "link" =>
                                u.links = links /\ u.cache = cache /\ u.calls = <<>>

(* an update that supplied the link's own alias together with a new URL  *)
(* has just succeeded: one cache key was deleted, the code is unchanged  *)
C34_Witness ==
    /\ ret.op = "update" /\ ret.res = "link"
    /\ \E i \in ret.ids :
        /\ links[i].custom_alias = links[i].short_code
        /\ links[i].original_url = "https://b"
        /\ ret.calls = <<CDel(links[i].short_code)>>

(* C35: delete_user returns false and changes nothing (no link            *)
(* deactivated, no commit, no cache call) when the user does not exist or *)
(* is an admin; otherwise it deactivates every link owned by that user,   *)
(* deletes the cache entry of each of them, removes the user, and leaves  *)
(* the links of all other users unchanged.                                *)
C35_DeleteUserEffects ==
    \A user_id \in UserIds \cup {GhostUser} :
        LET o == delete_user(Cur, user_id)
        IN  IF user_id \notin users \/ user_id \in AdminIds
            THEN /\ o.res = "False"
                 /\ o.links = links /\ o.users = users /\ o.cache = cache
                 /\ o.calls = <<>> /\ o.commits = 0
            ELSE /\ o.res = "True"
                 /\ o.users = users \ {user_id}
                 /\ DOMAIN o.links = DOMAIN links
                 /\ \A i \in DOMAIN links :
                        IF links[i].user_id = user_id
                        THEN /\ ~o.links[i].is_active
                             /\ o.cache[links[i].short_code] = NoEntry
                             /\ \E n \in DOMAIN o.calls :
                                    o.calls[n] = CDel(links[i].short_code)
                        ELSE o.links[i] = links[i]

(* a user has just been deleted: their cached link is deactivated and its *)
(* key deleted, while the link of another user is still active            *)
C35_Witness ==
    /\ ret.op = "delete_user" /\ ret.res = "True"
    /\ ret.calls # <<>>
    /\ users # UserIds
    /\ \E i, k \in DOMAIN links :
        /\ ~links[i].is_active /\ links[i].user_id = NoneUser
        /\ ret.calls = <<CDel(links[i].short_code)>>
        /\ links[k].is_active /\ links[k].user_id \in users

====
